---- MODULE Spec2Model ----
(***************************************************************************)
(* A model of three parts of the vrp repository:                           *)
(*   - Tour            (vrp-core/src/models/solution/tour.rs)              *)
(*   - CompositeRuin   (src/refinement/ruin/mod.rs)                        *)
(*   - the CLI's main  (src/main.rs)                                       *)
(* Each part has its own specification (Spec, SpecRuin, SpecMain) over the *)
(* variables of that part; the variables of the other parts stay put.      *)
(***************************************************************************)
EXTENDS Integers, Sequences, FiniteSets, TLC

(***************************************************************************)
(* Bounds of the model.                                                    *)
(***************************************************************************)
\* number of distinct jobs that activities may refer to
NumJobs == 2
\* largest total() a tour is grown to
MaxTotal == 4
\* largest total() of a tour that is copied, and of its copy
MaxCopyTotal == 2
\* largest number of ruins registered in a CompositeRuin
MaxRuins == 2
\* number of problem file paths given to the CLI
NumPaths == 3
\* number of distinct problems a reader may produce
NumProblems == 3

VARIABLES
    tour,       \* the Tour: [activities, jobs, is_closed]
    aborted,    \* TRUE once a call on the tour panicked (assert!/expect/index)
    call,       \* the last call made on the tour: <<operation, arguments...>>
    ret,        \* what that call returned: <<>> when nothing was returned, else <<value>>
    added,      \* history: the jobs of the tour in the order their activities were added
    before      \* history: the tour as it was when the last call was made

tourVars == <<tour, aborted, call, ret, added, before>>

VARIABLES
    ruins,          \* CompositeRuin.ruins: the registered (ruin, probability) pairs
    insertion_ctx,  \* the InsertionContext given to CompositeRuin::run
    pos,            \* how many entries self.ruins.iter() has handed out
    rpc,            \* where run is: "filter", "fold" or "done"
    acc,            \* the fold's accumulator
    events,         \* history: the draws taken and the ruins run, in order
    result          \* what run returned: <<>> before it returns, else <<ctx>>

ruinVars == <<ruins, insertion_ctx, pos, rpc, acc, events, result>>

VARIABLES
    mpc,            \* where main is
    problem_path,   \* matches.value_of("PROBLEM")
    problem_format, \* matches.value_of("FORMAT")
    parsed,         \* what the input reader returned: <<>> before, else <<result>>
    solution,       \* what the solver returned: <<>> before, else <<solution>>
    stdout,         \* what was written to standard output
    stderr,         \* what was written to standard error
    exit_code,      \* the process's exit code: <<>> while running, else <<code>>
    steps           \* history: the reader, solver and writer calls, in order

mainVars == <<mpc, problem_path, problem_format, parsed, solution, stdout, stderr,
              exit_code, steps>>

VARIABLES
    vecs,       \* the Vec<TourActivity> buffers in memory, by address
    sets,       \* the HashSet<Job> buffers in memory, by address
    original,   \* a Tour that is copied: the addresses of its buffers, and is_closed
    copy,       \* <<>> before deep_copy, else <<the Tour deep_copy returned>>
    ccall,      \* the last call on either tour: <<"original" or "copy", operation, arguments...>>
    caborted    \* TRUE once a call on either tour panicked

copyVars == <<vecs, sets, original, copy, ccall, caborted>>

vars == <<tourVars, ruinVars, mainVars, copyVars>>

(***************************************************************************)
(* Activities and jobs.  An activity is modelled by its job back-pointer;  *)
(* a sentinel (route start / route end) has none.                          *)
(***************************************************************************)
\* Option::None of Activity.job
None == 0

Jobs == 1..NumJobs

Activity(j) == [job |-> j]

Activities == {Activity(j) : j \in Jobs \cup {None}}

\* Activity::retrieve_job: Some(job) for a job activity, None for a sentinel
retrieve_job(a) == a.job

\* Activity::has_same_job: the activity has a job and it is `job`
has_same_job(a, job) == retrieve_job(a) # None /\ retrieve_job(a) = job

(***************************************************************************)
(* Vec and slice helpers; indices are 0-based as in the source.            *)
(***************************************************************************)
\* self.activities[i] / self.activities.get(i) for an index in range
At(s, i) == s[i + 1]

\* Vec::insert(index, a); the caller checks index <= len
VecInsert(s, index, a) == SubSeq(s, 1, index) \o <<a>> \o SubSeq(s, index + 1, Len(s))

\* what Vec::drain(lo..hi) leaves in the vector
VecDrainRest(s, lo, hi) == SubSeq(s, 1, lo) \o SubSeq(s, hi + 1, Len(s))

\* what Vec::drain(lo..hi) yields
VecDrained(s, lo, hi) == SubSeq(s, lo + 1, hi)

\* the elements of a sequence
Range(s) == {s[i] : i \in 1..Len(s)}

(***************************************************************************)
(* Results of a call: the tour it leaves, whether it panicked, its value.  *)
(***************************************************************************)
Ok(t, v) == [tour |-> t, panic |-> FALSE, value |-> <<v>>]

Panic(t) == [tour |-> t, panic |-> TRUE, value |-> <<>>]

\* Tour::default
TourDefault == [activities |-> <<>>, jobs |-> {}, is_closed |-> FALSE]

\* Tour::total
total(t) == Len(t.activities)

\* activity_count without its guard for the empty tour
activity_count_unguarded(t) ==
    Len(t.activities) - (IF t.is_closed THEN 2 ELSE 1)

\* Tour::activity_count
activity_count(t) ==
    IF t.activities = <<>> THEN 0
    ELSE Len(t.activities) - (IF t.is_closed THEN 2 ELSE 1)

\* Tour::contains
contains(t, job) == job \in t.jobs

\* Tour::has_jobs
has_jobs(t) == t.jobs # {}

\* Tour::job_count
job_count(t) == Cardinality(t.jobs)

\* Tour::set_start
set_start(t, a) ==
    IF a.job # None THEN Panic(t)
    ELSE IF t.activities # <<>> THEN Panic(t)
    ELSE Ok([t EXCEPT !.activities = Append(@, a)], "self")

\* Tour::set_end
set_end(t, a) ==
    IF a.job # None THEN Panic(t)
    ELSE IF t.activities = <<>> THEN Panic(t)
    ELSE Ok([t EXCEPT !.activities = Append(@, a), !.is_closed = TRUE], "self")

\* insert_at without assert!(!self.activities.is_empty())
insert_at_unasserted(t, a, index) ==
    IF a.job = None THEN Panic(t)
    ELSE IF index > Len(t.activities)
         THEN Panic([t EXCEPT !.jobs = @ \cup {retrieve_job(a)}])
         ELSE Ok([t EXCEPT !.jobs = @ \cup {retrieve_job(a)},
                           !.activities = VecInsert(@, index, a)], "self")

\* Tour::insert_at
insert_at(t, a, index) ==
    IF a.job = None THEN Panic(t)
    ELSE IF t.activities = <<>> THEN Panic(t)
    ELSE IF index > Len(t.activities)
         THEN Panic([t EXCEPT !.jobs = @ \cup {retrieve_job(a)}])
         ELSE Ok([t EXCEPT !.jobs = @ \cup {retrieve_job(a)},
                           !.activities = VecInsert(@, index, a)], "self")

\* insert_last that takes activity_count() for the index
insert_last_at_count(t, a) == insert_at(t, a, activity_count(t))

\* Tour::insert_last
insert_last(t, a) == insert_at(t, a, activity_count(t) + 1)

\* remove whose retain keeps only the activities without a job
remove_every_job(t, job) ==
    Ok([t EXCEPT !.activities = SelectSeq(@, LAMBDA a : retrieve_job(a) = None),
                 !.jobs = @ \ {job}],
       job \in t.jobs)

\* remove that forgets self.jobs.remove(job)
remove_keeps_job(t, job) ==
    Ok([t EXCEPT !.activities = SelectSeq(@, LAMBDA a : ~has_same_job(a, job))],
       job \in t.jobs)

\* Tour::remove
remove(t, job) ==
    Ok([t EXCEPT !.activities = SelectSeq(@, LAMBDA a : ~has_same_job(a, job)),
                 !.jobs = @ \ {job}],
       job \in t.jobs)

\* Tour::remove_activity_at
remove_activity_at(t, idx) ==
    IF idx >= Len(t.activities) THEN Panic(t)
    ELSE IF retrieve_job(At(t.activities, idx)) = None THEN Panic(t)
    ELSE LET job == retrieve_job(At(t.activities, idx))
         IN  Ok(remove(t, job).tour, job)

\* the fold of jobs.iter().for_each(|job| self.remove(job)) in remove_activities_at
RECURSIVE RemoveEach(_, _)
RemoveEach(t, js) ==
    IF js = <<>> THEN t ELSE RemoveEach(remove(t, Head(js)).tour, Tail(js))

\* remove_activities_at that drains the range and removes no job
remove_activities_at_drain_only(t, lo, hi) ==
    IF lo > hi \/ hi > Len(t.activities) THEN Panic(t)
    ELSE LET drained == VecDrained(t.activities, lo, hi)
             rest    == [t EXCEPT !.activities = VecDrainRest(@, lo, hi)]
         IN  IF \E a \in Range(drained) : retrieve_job(a) = None
             THEN Panic(rest)
             ELSE Ok(rest, [i \in 1..Len(drained) |-> retrieve_job(drained[i])])

\* Tour::remove_activities_at, for the range lo..hi
remove_activities_at(t, lo, hi) ==
    IF lo > hi \/ hi > Len(t.activities) THEN Panic(t)
    ELSE LET drained == VecDrained(t.activities, lo, hi)
             rest    == [t EXCEPT !.activities = VecDrainRest(@, lo, hi)]
         IN  IF \E a \in Range(drained) : retrieve_job(a) = None
             THEN Panic(rest)
             ELSE LET js == [i \in 1..Len(drained) |-> retrieve_job(drained[i])]
                  IN  Ok(RemoveEach(rest, js), js)

\* slice.windows(n).zip(0_usize..): the k-th window starts at k and holds n items
windows(s, n) ==
    [k \in 1..(IF Len(s) >= n THEN Len(s) - n + 1 ELSE 0) |->
        <<[from |-> k - 1, items |-> SubSeq(s, k, k + n - 1)], k - 1>>]

\* the legs for a window size and a decision to chain the last activity
LegsOf(t, last_index, window_size, is_open_tour_with_jobs) ==
    LET zipped == windows(t.activities, window_size)
    IN  IF is_open_tour_with_jobs
        THEN Append(zipped,
                    <<[from |-> last_index,
                       items |-> SubSeq(t.activities, last_index + 1, Len(t.activities))],
                      last_index>>)
        ELSE zipped

\* legs with the window size fixed at 2
legs_window2(t) ==
    IF Len(t.activities) = 0 THEN Panic(t)
    ELSE LET last_index == Len(t.activities) - 1
         IN  Ok(t, LegsOf(t, last_index, 2, ~t.is_closed /\ last_index > 0))

\* legs that chains the last activity on closed tours too
legs_chain_closed(t) ==
    IF Len(t.activities) = 0 THEN Panic(t)
    ELSE LET last_index == Len(t.activities) - 1
         IN  Ok(t, LegsOf(t, last_index, IF last_index = 0 THEN 1 ELSE 2, last_index > 0))

\* Tour::legs, collected: the sequence of (slice, index) pairs it yields.
\* On an empty tour len() - 1 overflows: a panic in a checked build, and in an
\* unchecked build last_index wraps to usize::MAX and the slice
\* activities[last_index..] panics.
legs(t) ==
    IF Len(t.activities) = 0 THEN Panic(t)
    ELSE LET last_index  == Len(t.activities) - 1
             window_size == IF last_index = 0 THEN 1 ELSE 2
             is_open_tour_with_jobs == ~t.is_closed /\ last_index > 0
         IN  Ok(t, LegsOf(t, last_index, window_size, is_open_tour_with_jobs))

\* the sequences without repetition that enumerate the set S
Enumerations(S) ==
    {s \in [1..Cardinality(S) -> S] : \A i, j \in 1..Cardinality(S) : s[i] = s[j] => i = j}

\* Tour::jobs: the iteration of a HashSet keyed by job identity; its order is
\* whatever the hash table's layout gives, so any enumeration of the set
jobs(t) == Enumerations(t.jobs)

\* Activity::deep_copy keeps the job back-pointer
ActivityDeepCopy(a) == [job |-> a.job]

\* Tour::deep_copy
deep_copy(t) ==
    [activities |-> [i \in 1..Len(t.activities) |-> ActivityDeepCopy(t.activities[i])],
     jobs       |-> {j \in Jobs : j \in t.jobs},
     is_closed  |-> t.is_closed]

(***************************************************************************)
(* The tour's state machine: one action per public operation.              *)
(***************************************************************************)
\* the history of additions after a call that took the job set from old to new
AddOrder(order, old, new) ==
    SelectSeq(order, LAMBDA j : j \in new) \o
        (IF new \ old = {} THEN <<>> ELSE <<CHOOSE j \in new \ old : TRUE>>)

\* the call c with result r takes effect; nothing runs after a panic
Apply(r, c) ==
    /\ ~aborted
    /\ tour' = r.tour
    /\ aborted' = r.panic
    /\ call' = c
    /\ ret' = r.value
    /\ added' = AddOrder(added, tour.jobs, r.tour.jobs)
    /\ before' = tour
    /\ UNCHANGED <<ruinVars, mainVars, copyVars>>

SetStart ==
    /\ total(tour) < MaxTotal
    /\ \E a \in Activities : Apply(set_start(tour, a), <<"set_start", a>>)

SetEnd ==
    /\ total(tour) < MaxTotal
    /\ \E a \in Activities : Apply(set_end(tour, a), <<"set_end", a>>)

InsertLast ==
    /\ total(tour) < MaxTotal
    /\ \E a \in Activities : Apply(insert_last(tour, a), <<"insert_last", a>>)

InsertAt ==
    /\ total(tour) < MaxTotal
    /\ \E a \in Activities, index \in 0..(total(tour) + 1) :
           Apply(insert_at(tour, a, index), <<"insert_at", a, index>>)

Remove ==
    \E job \in Jobs : Apply(remove(tour, job), <<"remove", job>>)

RemoveActivityAt ==
    \E idx \in 0..total(tour) :
        Apply(remove_activity_at(tour, idx), <<"remove_activity_at", idx>>)

RemoveActivitiesAt ==
    \E lo, hi \in 0..(total(tour) + 1) :
        Apply(remove_activities_at(tour, lo, hi), <<"remove_activities_at", lo, hi>>)

ActivityCount ==
    Apply(Ok(tour, activity_count(tour)), <<"activity_count">>)

Legs ==
    Apply(legs(tour), <<"legs">>)

JobsIter ==
    \E order \in jobs(tour) : Apply(Ok(tour, order), <<"jobs">>)

\* the copy takes the place of the tour it was made from
DeepCopy ==
    Apply(Ok(deep_copy(tour), "tour"), <<"deep_copy">>)

\* a fresh tour on which nothing was called yet
InitTour ==
    /\ tour = TourDefault
    /\ aborted = FALSE
    /\ call = <<"default">>
    /\ ret = <<>>
    /\ added = <<>>
    /\ before = TourDefault

\* no CompositeRuin is running
IdleRuin ==
    /\ ruins = <<>>
    /\ insertion_ctx = <<>>
    /\ pos = 0
    /\ rpc = "idle"
    /\ acc = <<>>
    /\ events = <<>>
    /\ result = <<>>

\* the CLI is not running
IdleMain ==
    /\ mpc = "idle"
    /\ problem_path = ""
    /\ problem_format = ""
    /\ parsed = <<>>
    /\ solution = <<>>
    /\ stdout = <<>>
    /\ stderr = <<>>
    /\ exit_code = <<>>
    /\ steps = <<>>

\* two tours in memory, the second not yet made
InitCopy ==
    /\ vecs = [a \in 1..2 |-> <<>>]
    /\ sets = [a \in 1..2 |-> {}]
    /\ original = [activities |-> 1, jobs |-> 1, is_closed |-> FALSE]
    /\ copy = <<>>
    /\ ccall = <<"original", "default">>
    /\ caborted = FALSE

Init == InitTour /\ IdleRuin /\ IdleMain /\ InitCopy

Next ==
    \/ SetStart
    \/ SetEnd
    \/ InsertLast
    \/ InsertAt
    \/ Remove
    \/ RemoveActivityAt
    \/ RemoveActivitiesAt
    \/ ActivityCount
    \/ Legs
    \/ JobsIter
    \/ DeepCopy

Spec == Init /\ [][Next]_vars

(***************************************************************************)
(* CompositeRuin.  Probabilities and draws are in hundredths: 100 is 1.0.  *)
(* A context is modelled by the sequence of ruins that have run on it, so  *)
(* that each ruin is an unknown function of the context it receives.       *)
(***************************************************************************)
RuinKinds == {"AdjustedStringRemoval", "RandomRouteRemoval"}

\* registered probabilities: 0, 0.01, 0.5 and 1.0
Probabilities == {0, 1, 50, 100}

\* values of random.uniform_real(0., 1.): 0, 0.49, 0.5 and 0.99
Draws == {0, 49, 50, 99}

RuinEntries == [ruin : RuinKinds, probability : Probabilities]

\* the Vec<(Box<dyn Ruin>, f64)> a CompositeRuin may hold
RuinConfigs == UNION {[1..n -> RuinEntries] : n \in 0..MaxRuins}

\* a default that registers the two ruins in the other order
CompositeRuinDefaultSwapped ==
    <<[ruin |-> "RandomRouteRemoval", probability |-> 1],
      [ruin |-> "AdjustedStringRemoval", probability |-> 100]>>

\* CompositeRuin::default
CompositeRuinDefault ==
    <<[ruin |-> "AdjustedStringRemoval", probability |-> 100],
      [ruin |-> "RandomRouteRemoval", probability |-> 1]>>

\* the contexts run is called with
InsertionContexts == {<<>>, <<"recreate">>}

\* Ruin::run of a registered ruin
RuinRun(kind, ctx) == Append(ctx, kind)

\* a filter predicate that also selects on an equal draw
selected_on_equal(probability, draw) == probability >= draw

\* the filter's predicate: *probability > random.uniform_real(0., 1.)
selected(probability, draw) == probability > draw

\* a fold closure that runs every ruin on the context run was called with
fold_step_on_input(ctx, entry) ==
    [received |-> insertion_ctx, returned |-> RuinRun(entry.ruin, insertion_ctx)]

\* the fold's closure |ctx, (ruin, _)| ruin.run(ctx): what the ruin receives and returns
fold_step(ctx, entry) ==
    [received |-> ctx, returned |-> RuinRun(entry.ruin, ctx)]

\* CompositeRuin::run is entered: the fold holds the context it was given
InitRuin ==
    /\ InitTour
    /\ IdleMain
    /\ InitCopy
    /\ ruins \in RuinConfigs \cup {CompositeRuinDefault}
    /\ insertion_ctx \in InsertionContexts
    /\ pos = 0
    /\ rpc = "filter"
    /\ acc = insertion_ctx
    /\ events = <<>>
    /\ result = <<>>

\* a filter that is collected before the fold starts: every draw is taken when
\* the first entry is asked for, and later entries are decided by those draws
RuinFilterEager ==
    /\ rpc = "filter"
    /\ pos < Len(ruins)
    /\ IF pos = 0
       THEN \E ds \in [1..Len(ruins) -> Draws] :
                /\ events' = events \o [i \in 1..Len(ruins) |-> <<"draw", i - 1, ds[i]>>]
                /\ IF selected(ruins[1].probability, ds[1])
                   THEN rpc' = "fold" /\ pos' = pos
                   ELSE rpc' = "filter" /\ pos' = pos + 1
       ELSE LET drawn == SelectSeq(events, LAMBDA e : e[1] = "draw" /\ e[2] = pos)
            IN  /\ events' = events
                /\ IF selected(ruins[pos + 1].probability, drawn[1][3])
                   THEN rpc' = "fold" /\ pos' = pos
                   ELSE rpc' = "filter" /\ pos' = pos + 1
    /\ UNCHANGED <<ruins, insertion_ctx, acc, result, tourVars, mainVars, copyVars>>

\* the fold asks the filter for the next entry: the filter takes the next
\* registered ruin, draws, and hands the entry on or drops it
RuinFilter ==
    /\ rpc = "filter"
    /\ pos < Len(ruins)
    /\ \E draw \in Draws :
           /\ events' = Append(events, <<"draw", pos, draw>>)
           /\ IF selected(ruins[pos + 1].probability, draw)
              THEN rpc' = "fold" /\ pos' = pos
              ELSE rpc' = "filter" /\ pos' = pos + 1
    /\ UNCHANGED <<ruins, insertion_ctx, acc, result, tourVars, mainVars, copyVars>>

\* the fold runs the entry the filter handed on
RuinFold ==
    /\ rpc = "fold"
    /\ LET step == fold_step(acc, ruins[pos + 1])
       IN  /\ acc' = step.returned
           /\ events' = Append(events, <<"run", pos, step.received, step.returned>>)
    /\ pos' = pos + 1
    /\ rpc' = "filter"
    /\ UNCHANGED <<ruins, insertion_ctx, result, tourVars, mainVars, copyVars>>

\* the iterator is exhausted: the fold returns its accumulator
RuinReturn ==
    /\ rpc = "filter"
    /\ pos = Len(ruins)
    /\ result' = <<acc>>
    /\ rpc' = "done"
    /\ UNCHANGED <<ruins, insertion_ctx, pos, acc, events, tourVars, mainVars, copyVars>>

NextRuin ==
    \/ RuinFilter
    \/ RuinFold
    \/ RuinReturn

SpecRuin == InitRuin /\ [][NextRuin]_vars

(***************************************************************************)
(* The CLI's main.  The readers, the solver and the writer are external:   *)
(* a reader returns Ok(problem) or Err(message) as the file decides, the   *)
(* solver is a function of the problem, a write to stdout may fail.        *)
(***************************************************************************)
\* the `readers` table: format tag -> reader
readers == [f \in {"solomon", "lilim"} |->
               IF f = "solomon" THEN "parse_solomon" ELSE "parse_lilim"]

\* the `writers` table: format tag -> writer
writers == [f \in {"solomon"} |-> "write_solomon_solution"]

\* what writers.get(problem_format) matches: Some(writer) or None
writer_found(format) == format \in DOMAIN writers

\* FORMAT values given on the command line
FormatArgs == {"solomon", "lilim", "json"}

Paths == {<<"path", n>> : n \in 1..NumPaths}

Problems == {<<"problem", n>> : n \in 1..NumProblems}

ParseErrors == {"cannot open file", "malformed line"}

\* Result<Problem, String> values of a reader
ReaderResults ==
    {[ok |-> TRUE, problem |-> p] : p \in Problems}
        \cup {[ok |-> FALSE, error |-> e] : e \in ParseErrors}

\* Solver::default().solve(problem)
Solve(problem) == <<"solution", problem>>

\* main is entered
InitMain ==
    /\ InitTour
    /\ IdleRuin
    /\ InitCopy
    /\ mpc = "get_matches"
    /\ problem_path = ""
    /\ problem_format = ""
    /\ parsed = <<>>
    /\ solution = <<>>
    /\ stdout = <<>>
    /\ stderr = <<>>
    /\ exit_code = <<>>
    /\ steps = <<>>

\* App::get_matches: clap ends the process with code 1 and a usage message
\* when FORMAT is none of possible_values (the readers' keys)
MainGetMatches ==
    /\ mpc = "get_matches"
    /\ \E path \in Paths, format \in FormatArgs :
           IF format \in DOMAIN readers
           THEN /\ problem_path' = path
                /\ problem_format' = format
                /\ mpc' = "read"
                /\ UNCHANGED <<stderr, exit_code>>
           ELSE /\ stderr' = Append(stderr, <<"invalid value for FORMAT", format>>)
                /\ exit_code' = <<1>>
                /\ mpc' = "exited"
                /\ UNCHANGED <<problem_path, problem_format>>
    /\ UNCHANGED <<parsed, solution, stdout, steps, tourVars, ruinVars, copyVars>>

\* input_reader.0(problem_path.to_string())
MainRead ==
    /\ mpc = "read"
    /\ \E r \in ReaderResults : parsed' = <<r>>
    /\ steps' = Append(steps, readers[problem_format])
    /\ mpc' = "match"
    /\ UNCHANGED <<problem_path, problem_format, solution, stdout, stderr, exit_code,
                   tourVars, ruinVars, copyVars>>

\* a match that solves a default problem when the reader failed
MainSolveAnyResult ==
    /\ mpc = "match"
    /\ solution' = <<Solve(IF parsed[1].ok THEN parsed[1].problem ELSE <<"problem", 0>>)>>
    /\ steps' = Append(steps, "solve")
    /\ mpc' = "write"
    /\ UNCHANGED <<problem_path, problem_format, parsed, stdout, stderr, exit_code,
                   tourVars, ruinVars, copyVars>>

\* Ok(problem) => Solver::default().solve(problem)
MainSolve ==
    /\ mpc = "match"
    /\ parsed[1].ok
    /\ solution' = <<Solve(parsed[1].problem)>>
    /\ steps' = Append(steps, "solve")
    /\ mpc' = "write"
    /\ UNCHANGED <<problem_path, problem_format, parsed, stdout, stderr, exit_code,
                   tourVars, ruinVars, copyVars>>

\* Err(error) => eprintln!("Cannot read ...")
MainParseError ==
    /\ mpc = "match"
    /\ ~parsed[1].ok
    /\ stderr' = Append(stderr, <<"Cannot read", problem_format, problem_path, parsed[1].error>>)
    /\ mpc' = "exit"
    /\ UNCHANGED <<problem_path, problem_format, parsed, solution, stdout, exit_code, steps,
                   tourVars, ruinVars, copyVars>>

\* Some(writer) => writer.0(solution).unwrap(): main returns after a write that
\* succeeded, and panics (exit code 101) on an io::Error
MainWrite ==
    /\ mpc = "write"
    /\ writer_found(problem_format)
    /\ steps' = Append(steps, writers[problem_format])
    /\ \E io_ok \in BOOLEAN :
           IF io_ok
           THEN /\ stdout' = Append(stdout, solution[1])
                /\ exit_code' = <<0>>
                /\ UNCHANGED stderr
           ELSE /\ stderr' = Append(stderr, <<"panicked at unwrap">>)
                /\ exit_code' = <<101>>
                /\ UNCHANGED stdout
    /\ mpc' = "exited"
    /\ UNCHANGED <<problem_path, problem_format, parsed, solution, tourVars, ruinVars, copyVars>>

\* _ => eprintln!("Don't know how to write solution ...")
MainNoWriter ==
    /\ mpc = "write"
    /\ ~writer_found(problem_format)
    /\ stderr' = Append(stderr, <<"Don't know how to write solution", problem_format>>)
    /\ mpc' = "exit"
    /\ UNCHANGED <<problem_path, problem_format, parsed, solution, stdout, exit_code, steps,
                   tourVars, ruinVars, copyVars>>

\* process::exit(1), after either message
MainExit ==
    /\ mpc = "exit"
    /\ exit_code' = <<1>>
    /\ mpc' = "exited"
    /\ UNCHANGED <<problem_path, problem_format, parsed, solution, stdout, stderr, steps,
                   tourVars, ruinVars, copyVars>>

NextMain ==
    \/ MainGetMatches
    \/ MainRead
    \/ MainSolve
    \/ MainParseError
    \/ MainWrite
    \/ MainNoWriter
    \/ MainExit

SpecMain == InitMain /\ [][NextMain]_vars

(***************************************************************************)
(* A tour and its deep copy in memory.  A Tour owns a Vec and a HashSet;   *)
(* here each is a buffer at an address, so that whether two tours share a  *)
(* buffer is part of the state.                                            *)
(***************************************************************************)
\* the tour held at h: the contents of its buffers
Load(h) == [activities |-> vecs[h.activities], jobs |-> sets[h.jobs], is_closed |-> h.is_closed]

\* a copy that keeps the buffers of the tour it was made from
shared_buffers(h) == h

\* the two collect() calls of deep_copy: a new Vec and a new HashSet
collected_buffers(h) == [activities |-> 2, jobs |-> 2, is_closed |-> h.is_closed]

\* the tours a call can be made on
Targets == IF copy = <<>> THEN {"original"} ELSE {"original", "copy"}

\* the Tour named by a target
HandleOf(target) == IF target = "original" THEN original ELSE copy[1]

\* a call c on the target tour with result r takes effect on that tour's buffers
ApplyTo(target, r, c) ==
    LET h == HandleOf(target)
        h2 == [h EXCEPT !.is_closed = r.tour.is_closed]
    IN  /\ ~caborted
        /\ vecs' = [vecs EXCEPT ![h.activities] = r.tour.activities]
        /\ sets' = [sets EXCEPT ![h.jobs] = r.tour.jobs]
        /\ IF target = "original"
           THEN original' = h2 /\ copy' = copy
           ELSE copy' = <<h2>> /\ original' = original
        /\ ccall' = <<target>> \o c
        /\ caborted' = r.panic
        /\ UNCHANGED <<tourVars, ruinVars, mainVars>>

CopySetStart ==
    \E target \in Targets, a \in Activities :
        /\ total(Load(HandleOf(target))) < MaxCopyTotal
        /\ ApplyTo(target, set_start(Load(HandleOf(target)), a), <<"set_start", a>>)

CopySetEnd ==
    \E target \in Targets, a \in Activities :
        /\ total(Load(HandleOf(target))) < MaxCopyTotal
        /\ ApplyTo(target, set_end(Load(HandleOf(target)), a), <<"set_end", a>>)

CopyInsertLast ==
    \E target \in Targets, a \in Activities :
        /\ total(Load(HandleOf(target))) < MaxCopyTotal
        /\ ApplyTo(target, insert_last(Load(HandleOf(target)), a), <<"insert_last", a>>)

CopyInsertAt ==
    \E target \in Targets, a \in Activities :
        /\ total(Load(HandleOf(target))) < MaxCopyTotal
        /\ \E index \in 0..(total(Load(HandleOf(target))) + 1) :
               ApplyTo(target, insert_at(Load(HandleOf(target)), a, index),
                       <<"insert_at", a, index>>)

CopyRemove ==
    \E target \in Targets, job \in Jobs :
        ApplyTo(target, remove(Load(HandleOf(target)), job), <<"remove", job>>)

CopyRemoveActivityAt ==
    \E target \in Targets :
        \E idx \in 0..total(Load(HandleOf(target))) :
            ApplyTo(target, remove_activity_at(Load(HandleOf(target)), idx),
                    <<"remove_activity_at", idx>>)

CopyRemoveActivitiesAt ==
    \E target \in Targets :
        \E lo, hi \in 0..(total(Load(HandleOf(target))) + 1) :
            ApplyTo(target, remove_activities_at(Load(HandleOf(target)), lo, hi),
                    <<"remove_activities_at", lo, hi>>)

\* original.deep_copy(): the copy's buffers are filled with the copied contents
CopyDeepCopy ==
    /\ ~caborted
    /\ copy = <<>>
    /\ LET h == collected_buffers(original)
           t == deep_copy(Load(original))
       IN  /\ vecs' = [vecs EXCEPT ![h.activities] = t.activities]
           /\ sets' = [sets EXCEPT ![h.jobs] = t.jobs]
           /\ copy' = <<[h EXCEPT !.is_closed = t.is_closed]>>
    /\ ccall' = <<"original", "deep_copy">>
    /\ UNCHANGED <<original, caborted, tourVars, ruinVars, mainVars>>

InitSpecCopy == InitTour /\ IdleRuin /\ IdleMain /\ InitCopy

NextCopy ==
    \/ CopySetStart
    \/ CopySetEnd
    \/ CopyInsertLast
    \/ CopyInsertAt
    \/ CopyRemove
    \/ CopyRemoveActivityAt
    \/ CopyRemoveActivitiesAt
    \/ CopyDeepCopy

SpecCopy == InitSpecCopy /\ [][NextCopy]_vars

(***************************************************************************)
(* Properties of the tour.                                                 *)
(***************************************************************************)
IsSentinel(a) == a.job = None

HasJob(a) == a.job # None

\* the number of activities of t that have a job
NumJobActivities(t) == Cardinality({i \in 1..Len(t.activities) : HasJob(t.activities[i])})

\* the number of activities of t that have none
NumSentinels(t) == Cardinality({i \in 1..Len(t.activities) : IsSentinel(t.activities[i])})

\* start sentinel first; an end sentinel last iff closed; jobs in between
IsWellFormed(t) ==
    LET n == Len(t.activities)
    IN  /\ n >= 1
        /\ IsSentinel(t.activities[1])
        /\ t.is_closed <=> (n >= 2 /\ IsSentinel(t.activities[n]))
        /\ \A i \in 2..(n - 1) : HasJob(t.activities[i])

\* C1: after any sequence of non-aborting mutator calls (insert_at with any
\* index) an initialized tour is well-formed: start sentinel at index 0, an end
\* sentinel last iff is_closed, every activity in between has a job.
C1_TourWellFormed ==
    (~aborted /\ total(tour) > 0) => IsWellFormed(tour)

\* C2: the jobs set is exactly the set of jobs of the non-sentinel activities;
\* so contains(j) iff some activity of j is in the tour, and has_jobs() iff a
\* job activity is present.
C2_JobsMatchActivities ==
    ~aborted =>
        /\ tour.jobs = {retrieve_job(a) : a \in {b \in Range(tour.activities) : HasJob(b)}}
        /\ \A j \in Jobs :
               contains(tour, j) <=> \E i \in 1..total(tour) : has_same_job(tour.activities[i], j)
        /\ has_jobs(tour) <=> \E i \in 1..total(tour) : HasJob(tour.activities[i])

\* C2 witness: a range removal that returned jobs and left other jobs in the tour
C2_Witness ==
    /\ ~aborted
    /\ call[1] = "remove_activities_at"
    /\ ret[1] # <<>>
    /\ tour.jobs # {}

Aborts == aborted' /\ ret' = <<>>

\* the range lo..hi covers a sentinel of t
CoversSentinel(t, lo, hi) ==
    \E i \in lo..(hi - 1) : i < total(t) /\ IsSentinel(At(t.activities, i))

\* C4: each listed misuse of a tour aborts instead of returning a value:
\* insert on an uninitialized tour or of an activity without a job; set_start
\* on a tour with activities; set_start/set_end of an activity with a job;
\* set_end on an uninitialized tour; remove_activity_at on a sentinel or
\* out-of-range index; remove_activities_at on a range covering a sentinel.
C4_MisuseAborts ==
    [][LET c == call' IN
        /\ (c[1] \in {"insert_at", "insert_last"}
               /\ (total(tour) = 0 \/ IsSentinel(c[2]))) => Aborts
        /\ (c[1] = "set_start" /\ (total(tour) > 0 \/ HasJob(c[2]))) => Aborts
        /\ (c[1] = "set_end" /\ (total(tour) = 0 \/ HasJob(c[2]))) => Aborts
        /\ (c[1] = "remove_activity_at"
               /\ (c[2] >= total(tour) \/ IsSentinel(At(tour.activities, c[2])))) => Aborts
        /\ (c[1] = "remove_activities_at" /\ CoversSentinel(tour, c[2], c[3])) => Aborts
      ]_vars

\* C4 witness: remove_activity_at on the index of a sentinel has aborted
C4_Witness ==
    /\ aborted
    /\ ret = <<>>
    /\ call[1] = "remove_activity_at"
    /\ call[2] < total(tour)
    /\ IsSentinel(At(tour.activities, call[2]))

\* C8: jobs() enumerates the jobs in the order their activities were added
\* to the tour.
C8_JobsInAdditionOrder ==
    (~aborted /\ call = <<"jobs">>) => ret = <<added>>

\* C9: legs() on a non-closed tour holding only the start sentinel yields
\* exactly one leg, the singleton slice [start] with index 0.
C9_LegsOfStartOnly ==
    (~aborted /\ call = <<"legs">> /\ ~tour.is_closed /\ total(tour) = 1) =>
        ret = << << <<[from |-> 0, items |-> <<tour.activities[1]>>], 0>> >> >>

C9_Precondition ==
    /\ call = <<"legs">>
    /\ ~tour.is_closed
    /\ total(tour) = 1

\* C9 witness: legs() returned on an open tour that holds only its start
C9_Witness ==
    /\ C9_Precondition
    /\ ~aborted
    /\ Len(ret) = 1

\* C10: on an initialized well-formed tour legs() yields activity_count() + 1
\* legs with indices 0..activity_count() in increasing order; leg i begins at
\* tour index i and is the pair (activity i, activity i+1), except the final
\* leg of an open tour, which is the singleton of the last activity.
C10_LegsEnumerateTour ==
    (~aborted /\ call = <<"legs">> /\ IsWellFormed(tour)) =>
        LET ls == ret[1]
            acts == tour.activities
        IN  /\ Len(ls) = activity_count(tour) + 1
            /\ \A k \in 1..Len(ls) :
                   /\ ls[k][2] = k - 1
                   /\ ls[k][1].from = k - 1
                   /\ ls[k][1].items =
                          IF ~tour.is_closed /\ k = Len(ls)
                          THEN <<acts[k]>>
                          ELSE <<acts[k], acts[k + 1]>>

\* C10 witness: legs() returned on a closed well-formed tour with two job activities
C10_Witness ==
    /\ ~aborted
    /\ call = <<"legs">>
    /\ IsWellFormed(tour)
    /\ tour.is_closed
    /\ activity_count(tour) = 2

\* C11: insert_last on an initialized well-formed tour places the activity as
\* the last job activity: right before the end sentinel of a closed tour, at
\* the very end of an open one; the start stays first, the end (if any) last,
\* is_closed is unchanged and the other activities keep their order.
C11_InsertLastPlacement ==
    (~aborted /\ call[1] = "insert_last" /\ IsWellFormed(before)) =>
        LET n == total(before)
            old == before.activities
        IN  /\ tour.activities =
                   IF before.is_closed
                   THEN SubSeq(old, 1, n - 1) \o <<call[2]>> \o <<old[n]>>
                   ELSE old \o <<call[2]>>
            /\ tour.is_closed = before.is_closed
            /\ IsWellFormed(tour)
            /\ At(tour.activities, activity_count(tour)) = call[2]

\* C11 witness: insert_last returned on a closed well-formed tour that held a job
C11_Witness ==
    /\ ~aborted
    /\ call[1] = "insert_last"
    /\ IsWellFormed(before)
    /\ before.is_closed
    /\ total(before) = 3

\* the number of activities of job j in t
NumActivitiesOf(t, j) ==
    Cardinality({i \in 1..Len(t.activities) : has_same_job(t.activities[i], j)})

\* the jobs the last removal call names as removed
RemovedJobs ==
    IF call[1] = "remove" THEN {call[2]}
    ELSE IF call[1] = "remove_activity_at" THEN {ret[1]}
    ELSE Range(ret[1])

\* C12: removal is job-atomic: after remove, remove_activity_at or
\* remove_activities_at returns, every activity of each removed job is gone,
\* also those outside the index or range named, the job is no longer in the
\* jobs set, and no job is left partially in the tour.
C12_RemovalIsJobAtomic ==
    (~aborted /\ call[1] \in {"remove", "remove_activity_at", "remove_activities_at"}) =>
        /\ \A j \in RemovedJobs : NumActivitiesOf(tour, j) = 0 /\ j \notin tour.jobs
        /\ call[1] = "remove_activity_at" =>
               ret[1] = retrieve_job(At(before.activities, call[2]))
        /\ call[1] = "remove_activities_at" =>
               \A i \in call[2]..(call[3] - 1) :
                   retrieve_job(At(before.activities, i)) \in RemovedJobs
        /\ \A j \in Jobs :
               NumActivitiesOf(tour, j) \in {0, NumActivitiesOf(before, j)}

\* C12 witness: a range of one activity was removed and its job had another
\* activity outside the range
C12_Witness ==
    /\ ~aborted
    /\ call = <<"remove_activities_at", 1, 2>>
    /\ NumActivitiesOf(before, ret[1][1]) = 2
    /\ total(tour) = total(before) - 2

\* C13: remove(job) returns true iff the job was in the tour; it removes only
\* that job's activities and leaves sentinels, is_closed and the other
\* activities in their order; on a job not in the tour it returns false and
\* changes nothing, so a second remove is a no-op returning false.
C13_RemoveFrame ==
    (~aborted /\ call[1] = "remove") =>
        LET j == call[2]
        IN  /\ ret[1] <=> contains(before, j)
            /\ ret[1] <=> NumActivitiesOf(before, j) > 0
            /\ tour.activities = SelectSeq(before.activities, LAMBDA a : a.job # j)
            /\ tour.is_closed = before.is_closed
            /\ tour.jobs = before.jobs \ {j}
            /\ ~contains(before, j) => (tour = before /\ ret = <<FALSE>>)
            /\ remove(tour, j) = Ok(tour, FALSE)

\* C13 witness: remove returned true on a closed tour and left another job's activity
C13_Witness ==
    /\ ~aborted
    /\ call[1] = "remove"
    /\ ret = <<TRUE>>
    /\ tour.is_closed
    /\ tour.jobs # {}
    /\ total(tour) < total(before)

\* C14: the list remove_activities_at returns holds each removed job exactly
\* once, also when several activities of one job lie inside the range.
C14_RemovedJobsListedOnce ==
    (~aborted /\ call[1] = "remove_activities_at") =>
        /\ Range(ret[1]) = before.jobs \ tour.jobs
        /\ \A i, k \in 1..Len(ret[1]) : ret[1][i] = ret[1][k] => i = k

(***************************************************************************)
(* Properties of CompositeRuin::run.                                       *)
(***************************************************************************)
\* the draws taken for the ruin at index k, in order
DrawsOf(k) == SelectSeq(events, LAMBDA e : e[1] = "draw" /\ e[2] = k)

\* the runs of ruins, in order
Runs == SelectSeq(events, LAMBDA e : e[1] = "run")

\* the ruin at index k was run
Applied(k) == \E i \in 1..Len(events) : events[i][1] = "run" /\ events[i][2] = k

\* C5: a run takes exactly one draw per registered ruin, and ruin k is applied
\* iff its own draw is strictly less than its probability; so probability 0
\* is never applied and probability 1.0 is applied for every draw in [0, 1).
C5_OneDrawPerRuin ==
    rpc = "done" =>
        \A k \in 0..(Len(ruins) - 1) :
            /\ Len(DrawsOf(k)) = 1
            /\ Applied(k) <=> DrawsOf(k)[1][3] < ruins[k + 1].probability
            /\ ruins[k + 1].probability = 0 => ~Applied(k)
            /\ ruins[k + 1].probability = 100 => Applied(k)

\* C5 witness: a finished run that applied one ruin and dropped another
C5_Witness ==
    /\ rpc = "done"
    /\ Len(ruins) = 2
    /\ Applied(0)
    /\ ~Applied(1)
    /\ ruins[2].probability = 50

\* C6: the selected ruins run in registration order, each on the context the
\* previously applied ruin returned (the first on the input), and run returns
\* the last one's context; an unselected ruin has no effect, and with no ruin
\* selected the input context is returned unchanged.
C6_RuinsChainInOrder ==
    rpc = "done" =>
        /\ \A i \in 1..Len(Runs) :
               /\ Runs[i][3] = (IF i = 1 THEN insertion_ctx ELSE Runs[i - 1][4])
               /\ Runs[i][4] = RuinRun(ruins[Runs[i][2] + 1].ruin, Runs[i][3])
               /\ i > 1 => Runs[i - 1][2] < Runs[i][2]
               /\ DrawsOf(Runs[i][2])[1][3] < ruins[Runs[i][2] + 1].probability
        /\ result = <<IF Runs = <<>> THEN insertion_ctx ELSE Runs[Len(Runs)][4]>>

\* C6 witness: a finished run in which two ruins were applied
C6_Witness ==
    /\ rpc = "done"
    /\ Len(Runs) = 2
    /\ result = <<insertion_ctx \o <<ruins[1].ruin, ruins[2].ruin>>>>

\* C16: the draws are interleaved with the runs: events are in registration
\* order, the draw for ruin k comes before ruin k runs, and it is taken only
\* after ruin k-1, if it was selected, has run.
C16_DrawsInterleaved ==
    /\ \A i, j \in 1..Len(events) :
           i < j =>
               \/ events[i][2] < events[j][2]
               \/ /\ events[i][2] = events[j][2]
                  /\ events[i][1] = "draw"
                  /\ events[j][1] = "run"
    /\ \A i \in 1..Len(events) :
           (events[i][1] = "draw" /\ events[i][2] > 0) =>
               LET k == events[i][2] - 1
               IN  /\ Len(DrawsOf(k)) = 1
                   /\ DrawsOf(k)[1][3] < ruins[k + 1].probability =>
                          \E h \in 1..(i - 1) : events[h][1] = "run" /\ events[h][2] = k

\* C16 witness: draw 0, run 0, draw 1, run 1 happened in this order
C16_Witness ==
    /\ Len(events) = 4
    /\ events[1][1] = "draw" /\ events[1][2] = 0
    /\ events[2][1] = "run" /\ events[2][2] = 0
    /\ events[3][1] = "draw" /\ events[3][2] = 1
    /\ events[4][1] = "run" /\ events[4][2] = 1

\* C17: the default CompositeRuin registers exactly two ruins,
\* AdjustedStringRemoval with probability 1.0 first and RandomRouteRemoval
\* with 0.01 second; every run applies AdjustedStringRemoval, and when
\* RandomRouteRemoval is applied too it runs after it, on the context it produced.
C17_DefaultRuins ==
    ruins = CompositeRuinDefault =>
        /\ Len(ruins) = 2
        /\ ruins[1] = [ruin |-> "AdjustedStringRemoval", probability |-> 100]
        /\ ruins[2] = [ruin |-> "RandomRouteRemoval", probability |-> 1]
        /\ rpc = "done" =>
               /\ Applied(0)
               /\ Runs[1][2] = 0
               /\ Runs[1][3] = insertion_ctx
               /\ Runs[1][4] = RuinRun("AdjustedStringRemoval", insertion_ctx)
               /\ Applied(1) =>
                      /\ Len(Runs) = 2
                      /\ Runs[2][2] = 1
                      /\ Runs[2][3] = Runs[1][4]
                      /\ result = <<RuinRun("RandomRouteRemoval", Runs[1][4])>>

\* C17 witness: a finished run of the default CompositeRuin that applied both ruins
C17_Witness ==
    /\ rpc = "done"
    /\ ruins = CompositeRuinDefault
    /\ Applied(0)
    /\ Applied(1)

(***************************************************************************)
(* Properties of the CLI.                                                  *)
(***************************************************************************)
\* C7: for every format tag the CLI accepts (solomon and lilim), when the
\* problem file parses the program solves it, writes the solution and exits
\* with code 0 (a failed write to stdout aside); exit code 1 occurs only on a
\* parse error or an unknown format.
C7_AcceptedFormatExitsZero ==
    mpc = "exited" =>
        /\ (problem_format \in {"solomon", "lilim"} /\ parsed # <<>> /\ parsed[1].ok
               /\ exit_code # <<101>>) =>
               /\ exit_code = <<0>>
               /\ stdout = <<Solve(parsed[1].problem)>>
        /\ exit_code = <<1>> =>
               \/ problem_format = ""
               \/ (parsed # <<>> /\ ~parsed[1].ok)

\* the position of the first occurrence of x in s, 0 when there is none
FirstIndex(s, x) ==
    IF \E i \in 1..Len(s) : s[i] = x
    THEN CHOOSE i \in 1..Len(s) : s[i] = x /\ \A h \in 1..(i - 1) : s[h] # x
    ELSE 0

\* the reader returned an error
ParseFailed == parsed # <<>> /\ ~parsed[1].ok

\* C18: a parse error ends the run before any solving or writing: the solver
\* is never invoked, nothing is written to the output and the exit code is 1;
\* the solver runs only after a successful parse and the writer only after
\* the solver returned.
C18_ParseErrorEndsRun ==
    /\ ParseFailed =>
           /\ FirstIndex(steps, "solve") = 0
           /\ FirstIndex(steps, "write_solomon_solution") = 0
           /\ solution = <<>>
           /\ stdout = <<>>
           /\ mpc = "exited" => exit_code = <<1>>
    /\ FirstIndex(steps, "solve") > 0 =>
           /\ parsed # <<>> /\ parsed[1].ok
           /\ FirstIndex(steps, readers[problem_format]) = 1
           /\ FirstIndex(steps, "solve") = 2
    /\ FirstIndex(steps, "write_solomon_solution") > 0 =>
           /\ FirstIndex(steps, "solve") = 2
           /\ FirstIndex(steps, "write_solomon_solution") = 3
           /\ solution = <<Solve(parsed[1].problem)>>

\* C18 witness: the process has exited after the reader returned an error
C18_Witness ==
    /\ mpc = "exited"
    /\ ParseFailed
    /\ exit_code = <<1>>
    /\ steps = <<readers[problem_format]>>

(***************************************************************************)
(* Properties of deep_copy.                                                *)
(***************************************************************************)
\* C15: deep_copy returns a tour with the same activity sequence, the same
\* jobs set and the same is_closed as the original, and the copy is
\* independent: a later call on the copy leaves the original's activities,
\* jobs and is_closed unchanged, and a later call on the original leaves the copy's.
C15_DeepCopyIndependent ==
    [][/\ ccall' = <<"original", "deep_copy">> =>
              /\ copy' # <<>>
              /\ Load(copy[1])' = Load(original)
              /\ Load(original)' = Load(original)
       /\ ccall'[1] = "copy" => Load(original)' = Load(original)
       /\ (ccall'[1] = "original" /\ copy # <<>>) => Load(copy[1])' = Load(copy[1])
      ]_vars

\* C15 witness: a job was removed from the copy and the original still holds it
C15_Witness ==
    /\ ~caborted
    /\ copy # <<>>
    /\ ccall[1] = "copy"
    /\ ccall[2] = "remove"
    /\ ~contains(Load(copy[1]), ccall[3])
    /\ contains(Load(original), ccall[3])
    /\ total(Load(original)) = total(Load(copy[1])) + 1

====
